---------------------------- MODULE Spec2Model ----------------------------
(***************************************************************************)
(* Model of the ABSPATH-position lint scripts:                             *)
(*   check_abspath_position.py  - check_file and the module-level walk     *)
(*   debug_check.py             - the diagnostic harness                   *)
(* Texts are sequences of one-character strings; offsets are 0-based as    *)
(* in Python (m.start()), so offset p is the element at index p + 1.       *)
(***************************************************************************)
EXTENDS Integers, Sequences, FiniteSets, TLC

VARIABLES
    fs,        \* the filesystem under the scan root
    run,       \* "first" or "second" execution of the walker script
    status,    \* "walking", "done" (normal exit) or "aborted" (unhandled exception)
    todo,      \* what os.walk has still to yield, flattened to (dirpath, filename)
    out,       \* standard output of the current walker run, one path per line
    prev_out,  \* standard output of the finished first run
    opened,    \* paths handed to open() during the current run
    pc,        \* position of the rule driver: "walk", "text", "checked", "harnessed"
    cf,        \* locals of the last check_file call made by the rule driver
    dbg        \* debug_check.py: its globals and the lines it printed

vars == <<fs, run, status, todo, out, prev_out, opened, pc, cf, dbg>>

---------------------------------------------------------------------------
(* Characters *)

\* Python's \s on the characters of the model's alphabet
Whitespace == {" ", "\t", "\n", "\r", "\f"}

\* Python's \w on the characters of the model's alphabet
WordChar ==
    {"a","b","c","d","e","f","g","h","i","j","k","l","m",
     "n","o","p","q","r","s","t","u","v","w","x","y","z",
     "A","B","C","D","E","F","G","H","I","J","K","L","M",
     "N","O","P","Q","R","S","T","U","V","W","X","Y","Z",
     "0","1","2","3","4","5","6","7","8","9","_"}

\* the character class ['"] of the guard pattern
Quote == {"'", "\""}

\* the character class [\w\\] of the use pattern
IdentChar == WordChar \cup {"\\"}

\* a byte that is not valid UTF-8 (stands for any undecodable content)
BadByte == "xFF"

LitUse == <<"u","s","e">>
LitDefined == <<"d","e","f","i","n","e","d","(">>
LitABSPATH == <<"A","B","S","P","A","T","H">>
LitDotPhp == <<".","p","h","p">>
LitIndexPhp == <<"i","n","d","e","x",".","p","h","p">>

---------------------------------------------------------------------------
(* The two regular expressions, matched as Python's re matches them *)

\* s[p:p+len(lit)] == lit
LiteralAt(s, p, lit) ==
    /\ p + Len(lit) <= Len(s)
    /\ SubSeq(s, p + 1, p + Len(lit)) = lit

\* the offset after the longest run of characters of class cls starting at p
\* (a greedy X* whose follower is outside X never gives characters back)
RECURSIVE SkipRun(_, _, _)
SkipRun(s, p, cls) ==
    IF p < Len(s) /\ s[p + 1] \in cls THEN SkipRun(s, p + 1, cls) ELSE p

\* '^': with re.MULTILINE at the start of the text and after every "\n",
\* without it at the start of the text only
AtLineStart(s, p, multiline) ==
    \/ p = 0
    \/ multiline /\ s[p] = "\n"

\* r'^\s*use\s+[\w\\]+' tried at offset p: the end offset of the match, -1 if none
use_match_end(s, p, multiline) ==
    IF ~AtLineStart(s, p, multiline) THEN -1
    ELSE LET a == SkipRun(s, p, Whitespace) IN
         IF ~LiteralAt(s, a, LitUse) THEN -1
         ELSE LET b == a + Len(LitUse)
                  c == SkipRun(s, b, Whitespace)
                  d == SkipRun(s, c, IdentChar)
              IN IF c = b \/ d = c THEN -1 ELSE d

\* the second ['"] of the guard pattern, as a backreference would read it
closing_quote_same(open_q, close_q) == close_q = open_q

\* the second ['"] of the guard pattern: any quote, whatever the first was
closing_quote(open_q, close_q) == close_q \in Quote

\* r'defined\(\s*[\'"]ABSPATH[\'"]\s*\)' tried at offset p: end offset, -1 if none
guard_match_end(s, p) ==
    IF ~LiteralAt(s, p, LitDefined) THEN -1
    ELSE LET a == SkipRun(s, p + Len(LitDefined), Whitespace) IN
         IF ~(a < Len(s) /\ s[a + 1] \in Quote) THEN -1
         ELSE IF ~LiteralAt(s, a + 1, LitABSPATH) THEN -1
         ELSE LET b == a + 1 + Len(LitABSPATH) IN
              IF ~(b < Len(s) /\ closing_quote(s[a + 1], s[b + 1])) THEN -1
              ELSE LET c == SkipRun(s, b + 1, Whitespace) IN
                   IF c < Len(s) /\ s[c + 1] = ")" THEN c + 1 ELSE -1

\* the smallest offset of a non-empty set of offsets
Leftmost(offsets) == CHOOSE p \in offsets : \A q \in offsets : p <= q

\* [m.start() for m in re.finditer(USE, s, flags)] from offset pos on:
\* the leftmost match at or after pos, the scan resuming at its end
RECURSIVE re_finditer_use(_, _, _)
re_finditer_use(s, pos, multiline) ==
    LET starts == {p \in pos..Len(s) : use_match_end(s, p, multiline) >= 0} IN
    IF starts = {} THEN <<>>
    ELSE LET p == Leftmost(starts) IN
         <<p>> \o re_finditer_use(s, use_match_end(s, p, multiline), multiline)

\* a re.Match (found) or None (not found)
NoMatch == [found |-> FALSE, start |-> -1, end |-> -1]

\* re.search(GUARD, s) from offset pos on: the leftmost match at or after pos
re_search_guard(s, pos) ==
    LET starts == {p \in pos..Len(s) : guard_match_end(s, p) >= 0} IN
    IF starts = {} THEN NoMatch
    ELSE LET p == Leftmost(starts) IN
         [found |-> TRUE, start |-> p, end |-> guard_match_end(s, p)]

\* m.group(0)
group0(s, m) == SubSeq(s, m.start + 1, m.end)

---------------------------------------------------------------------------
(* Python values *)

\* None, a str, or an exception still propagating out of a call
None == [kind |-> "None", s |-> <<>>]
Str(chars) == [kind |-> "str", s |-> chars]
Raised == [kind |-> "exc", s |-> <<>>]

\* the truth value 'if res:' tests
Truthy(v) == v.kind = "str" /\ Len(v.s) > 0

---------------------------------------------------------------------------
(* The filesystem, open() and read() *)

\* os.path.join(dirpath, filename) for a relative filename
path_join(dirpath, filename) == dirpath \o <<"/">> \o filename

\* the entry of fs that filepath names, as a set (empty: no such file)
Lookup(filepath) ==
    {i \in 1..Len(fs.entries) :
        path_join(fs.entries[i].dir, fs.entries[i].name) = filepath}

\* bytes.decode('utf-8'): fails on any invalid byte
Decodable(bytes) == \A i \in 1..Len(bytes) : bytes[i] # BadByte

\* text mode with newline=None: "\r\n" and a lone "\r" are read as "\n"
\* (every "\r" becomes "\n", and the "\n" right after a "\r" is dropped)
universal_newlines(t) ==
    LET marked == [i \in 1..Len(t) |->
                      IF t[i] = "\r" THEN "\n"
                      ELSE IF t[i] = "\n" /\ i > 1 /\ t[i - 1] = "\r" THEN "DROP"
                      ELSE t[i]]
    IN SelectSeq(marked, LAMBDA c : c # "DROP")

\* with open(filepath, 'r', encoding='utf-8') as f: content = f.read()
\* raised: OSError (missing, no permission) or UnicodeDecodeError
open_read(filepath) ==
    LET hit == Lookup(filepath) IN
    IF hit = {} THEN [raised |-> TRUE, content |-> <<>>]
    ELSE LET f == fs.entries[CHOOSE i \in hit : TRUE] IN
         IF ~f.readable \/ ~Decodable(f.bytes)
         THEN [raised |-> TRUE, content |-> <<>>]
         ELSE [raised |-> FALSE, content |-> universal_newlines(f.bytes)]

---------------------------------------------------------------------------
(* check_file *)

\* the except clause of check_file, had it let the exception through
except_reraise == Raised

\* except Exception as e: return None
except_Exception == None

\* use_statements[-1]
last_use_pos(use_statements) == use_statements[Len(use_statements)]

\* first_use_pos = use_statements[0]
first_use_pos(use_statements) == use_statements[1]

\* the comparison the wrong way round
pos_after(abspath_pos, first_use) == abspath_pos > first_use

\* if abspath_pos < first_use_pos
pos_before(abspath_pos, first_use) == abspath_pos < first_use

\* the frame of a check_file call that has not read any text
NoFrame(ret) ==
    [read |-> FALSE, content |-> <<>>, use_statements |-> <<>>,
     abspath_check |-> NoMatch, ret |-> ret]

\* check_file(filepath): its locals at the return, ret the value returned
check_file(filepath) ==
    LET rd == open_read(filepath) IN
    IF rd.raised THEN NoFrame(except_Exception)
    ELSE LET content == rd.content
             use_statements == re_finditer_use(content, 0, TRUE)
             abspath_check == re_search_guard(content, 0)
             frame == [read |-> TRUE, content |-> content,
                       use_statements |-> use_statements,
                       abspath_check |-> abspath_check, ret |-> None]
         IN IF use_statements = <<>> \/ ~abspath_check.found
            THEN frame
            ELSE IF pos_before(abspath_check.start, first_use_pos(use_statements))
                 THEN [frame EXCEPT !.ret = Str(filepath)]
                 ELSE frame

---------------------------------------------------------------------------
(* The module-level walk of check_abspath_position.py *)

\* root_dir = 'src'
root_dir == <<"s","r","c">>

\* os.walk(top) with onerror a handler that raises: a failed listing of top
\* propagates
os_walk_raising(top) ==
    IF fs.root # "ok" THEN [raised |-> TRUE, files |-> <<>>]
    ELSE [raised |-> FALSE,
          files |-> [i \in 1..Len(fs.entries) |->
                        [dir |-> fs.entries[i].dir, name |-> fs.entries[i].name]]]

\* os.walk(top), onerror left at None: the error of a failed listing is
\* ignored, so a missing or unreadable top yields nothing; otherwise every
\* (dirpath, filename) of the tree, top-down
os_walk(top) ==
    IF fs.root # "ok" THEN [raised |-> FALSE, files |-> <<>>]
    ELSE [raised |-> FALSE,
          files |-> [i \in 1..Len(fs.entries) |->
                        [dir |-> fs.entries[i].dir, name |-> fs.entries[i].name]]]

\* filename.endswith(suffix)
endswith(filename, suffix) ==
    /\ Len(filename) >= Len(suffix)
    /\ SubSeq(filename, Len(filename) - Len(suffix) + 1, Len(filename)) = suffix

\* the filter without its by-name exclusion
is_candidate_no_exclusion(filename) == endswith(filename, LitDotPhp)

\* filename.endswith('.php') and filename != 'index.php'
is_candidate(filename) ==
    endswith(filename, LitDotPhp) /\ filename # LitIndexPhp

\* a line written above the earlier ones instead of below them
print_line_first(stdout, line) == <<line>> \o stdout

\* print(res)
print_line(stdout, line) == Append(stdout, line)

\* for dirpath, dirnames, filenames in os.walk(root_dir): the generator starts
StartWalk ==
    /\ pc = "walk"
    /\ status = "start"
    /\ LET w == os_walk(root_dir) IN
       IF w.raised
       THEN status' = "aborted" /\ todo' = <<>>
       ELSE status' = "walking" /\ todo' = w.files
    /\ UNCHANGED <<fs, run, out, prev_out, opened, cf, dbg, pc>>

\* one iteration of 'for filename in filenames', with a reported file
\* rewritten on the way (its guard removed)
VisitFileRewriting ==
    /\ pc = "walk"
    /\ status = "walking"
    /\ todo # <<>>
    /\ LET filename == Head(todo).name
           filepath == path_join(Head(todo).dir, filename)
           res == check_file(filepath).ret
       IN IF is_candidate(filename)
          THEN /\ opened' = opened \cup {filepath}
               /\ status' = IF res.kind = "exc" THEN "aborted" ELSE status
               /\ todo' = IF res.kind = "exc" THEN todo ELSE Tail(todo)
               /\ out' = IF Truthy(res) THEN print_line(out, res.s) ELSE out
               /\ fs' = IF Truthy(res)
                        THEN [fs EXCEPT !.entries =
                                 [i \in 1..Len(fs.entries) |->
                                    IF i \in Lookup(filepath)
                                    THEN [fs.entries[i] EXCEPT !.bytes = <<>>]
                                    ELSE fs.entries[i]]]
                        ELSE fs
          ELSE /\ todo' = Tail(todo)
               /\ UNCHANGED <<status, out, opened, fs>>
    /\ UNCHANGED <<run, prev_out, cf, dbg, pc>>

\* one iteration of 'for filename in filenames': the filter, check_file, print
VisitFile ==
    /\ pc = "walk"
    /\ status = "walking"
    /\ todo # <<>>
    /\ LET filename == Head(todo).name
           filepath == path_join(Head(todo).dir, filename)
           res == check_file(filepath).ret
       IN IF is_candidate(filename)
          THEN /\ opened' = opened \cup {filepath}
               /\ status' = IF res.kind = "exc" THEN "aborted" ELSE status
               /\ todo' = IF res.kind = "exc" THEN todo ELSE Tail(todo)
               /\ out' = IF Truthy(res) THEN print_line(out, res.s) ELSE out
          ELSE /\ todo' = Tail(todo)
               /\ UNCHANGED <<status, out, opened>>
    /\ UNCHANGED <<fs, run, prev_out, cf, dbg, pc>>

\* os.walk is exhausted: the script falls off its end and exits normally
ExitWalk ==
    /\ pc = "walk"
    /\ status = "walking"
    /\ todo = <<>>
    /\ status' = "done"
    /\ UNCHANGED <<fs, run, todo, out, prev_out, opened, cf, dbg, pc>>

\* the script is run a second time over the filesystem the first run left
Rerun ==
    /\ pc = "walk"
    /\ run = "first"
    /\ status \in {"done", "aborted"}
    /\ run' = "second"
    /\ prev_out' = out
    /\ out' = <<>>
    /\ opened' = {}
    /\ todo' = <<>>
    /\ status' = "start"
    /\ UNCHANGED <<fs, cf, dbg, pc>>

---------------------------------------------------------------------------
(* debug_check.py *)

\* a printed line: what it says, and the number or the text it carries
Line(kind, n, s) == [kind |-> kind, n |-> n, s |-> s]

\* line 24 without re.MULTILINE
dbg_use_statements_single_line(content) == re_finditer_use(content, 0, FALSE)

\* use_statements = [m.start() for m in re.finditer(..., content, re.MULTILINE)]
dbg_use_statements(content) == re_finditer_use(content, 0, TRUE)

\* abspath_check = re.search(..., content)
dbg_abspath_check(content) == re_search_guard(content, 0)

\* the closing if/else with the else bound to the inner if
dbg_final_dangling_else(use_statements, abspath_check) ==
    IF use_statements # <<>> /\ abspath_check.found
    THEN IF abspath_check.start < use_statements[1]
         THEN Line("DETECTED", -1, <<>>)
         ELSE Line("NOT_BOTH", -1, <<>>)
    ELSE Line("OK", -1, <<>>)

\* if use_statements and abspath_check: ... else: print("Not detected both patterns")
dbg_final(use_statements, abspath_check) ==
    IF use_statements # <<>> /\ abspath_check.found
    THEN IF abspath_check.start < use_statements[1]
         THEN Line("DETECTED", -1, <<>>)
         ELSE Line("OK", -1, <<>>)
    ELSE Line("NOT_BOTH", -1, <<>>)

\* the whole script on its content: the globals and the lines printed, in order
dbg_script(content) ==
    LET use_statements == dbg_use_statements(content)
        abspath_check == dbg_abspath_check(content)
        l1 == <<Line("COUNT", Len(use_statements), <<>>)>>
        l2 == IF use_statements # <<>>
              THEN <<Line("FIRST_USE", use_statements[1], <<>>)>>
              ELSE <<>>
        l3 == IF abspath_check.found
              THEN <<Line("GUARD_AT", abspath_check.start, <<>>),
                     Line("MATCH", -1, group0(content, abspath_check))>>
              ELSE <<>>
        l4 == <<dbg_final(use_statements, abspath_check)>>
    IN [content |-> content, ran |-> TRUE,
        use_statements |-> use_statements, abspath_check |-> abspath_check,
        lines |-> l1 \o l2 \o l3 \o l4]

\* debug_check.py before it runs
dbg_loaded(content) ==
    [content |-> content, ran |-> FALSE, use_statements |-> <<>>,
     abspath_check |-> NoMatch, lines |-> <<>>]

---------------------------------------------------------------------------
(* The rule driver: check_file on one file, debug_check.py on the same text *)

\* the one file of the rule driver's filesystem
SampleDir == root_dir
SampleName == <<"a",".","p","h","p">>
SamplePath == path_join(SampleDir, SampleName)

\* check_file(SamplePath) is called
CallCheckFile ==
    /\ pc = "text"
    /\ cf' = check_file(SamplePath)
    /\ pc' = "checked"
    /\ UNCHANGED <<fs, run, status, todo, out, prev_out, opened, dbg>>

\* debug_check.py is run
RunHarness ==
    /\ pc = "checked"
    /\ dbg' = dbg_script(dbg.content)
    /\ pc' = "harnessed"
    /\ UNCHANGED <<fs, run, status, todo, out, prev_out, opened, cf>>

---------------------------------------------------------------------------
(* The text debug_check.py holds *)

\* the character "\a" of the literal: a BEL, neither whitespace nor a word
\* character
Bel == "x07"

\* content = """<?php ... """ as Python reads the literal ("\a" is a BEL,
\* the other backslashes stay)
DbgContent ==
    <<"<","?","p","h","p","\n","\n","/","*","*","\n"," ","*"," ","S","t",
      "a","r","m","u","s"," ","A","d","m","i","n"," ","H","a","n","d","l",
      "e","r"," ","-"," ","R","e","f","a","c","t","o","r","e","d"," ","f",
      "o","r"," ","S","e","c","u","r","i","t","y"," ","&"," ","P","e","r",
      "f","o","r","m","a","n","c","e","\n"," ","*","\n"," ","*"," ","@","p",
      "a","c","k","a","g","e"," ","S","t","a","r","i","s","i","a","n","\\",
      "S","p","a","r","x","s","t","a","r","\\","S","t","a","r","m","u","s",
      Bel,"d","m","i","n","\n"," ","*","\n"," ","*"," ","@","v","e","r",
      "s","i","o","n"," ","0",".","9",".","2","\n"," ","*","\n"," ","*"," ",
      "@","s","i","n","c","e"," ","0",".","3",".","1","\n"," ","*","/","\n",
      "n","a","m","e","s","p","a","c","e"," ","S","t","a","r","i","s","i",
      "a","n","\\","S","p","a","r","x","s","t","a","r","\\","S","t","a","r",
      "m","u","s",Bel,"d","m","i","n",";","\n","\n","i","f"," ","(","!",
      " ","\\","d","e","f","i","n","e","d","(","'","A","B","S","P","A","T",
      "H","'",")",")"," ","{","\n"," "," "," "," ","r","e","t","u","r","n",
      ";","\n","}","\n","\n","u","s","e"," ","S","t","a","r","i","s","i",
      "a","n","\\","S","p","a","r","x","s","t","a","r","\\","S","t","a","r",
      "m","u","s","\\","c","o","r","e","\\","S","t","a","r","m","u","s","S",
      "e","t","t","i","n","g","s",";","\n","u","s","e"," ","S","t","a","r",
      "i","s","i","a","n","\\","S","p","a","r","x","s","t","a","r","\\","S",
      "t","a","r","m","u","s","\\","d","a","t","a","\\","i","n","t","e","r",
      "f","a","c","e","s","\\","I","S","t","a","r","m","u","s","A","u","d",
      "i","o","D","A","L",";","\n">>

---------------------------------------------------------------------------
(* The inputs: texts put together from a few pieces of PHP source *)

LexGuard == <<"d","e","f","i","n","e","d","(","'","A","B","S","P","A","T","H","'",")">>
LexGuardMixed == <<"d","e","f","i","n","e","d","(","'","A","B","S","P","A","T","H","\"",")">>
LexGuardSpaced == <<"d","e","f","i","n","e","d","("," ","\"","A","B","S","P","A","T","H","\""," ",")">>
LexGuardBare == <<"d","e","f","i","n","e","d","(","A","B","S","P","A","T","H",")">>
LexUse == <<"u","s","e"," ","x">>
LexLineUse == <<"\n","u","s","e"," ","x">>
LexWord == <<"x">>
LexLF == <<"\n">>
LexCR == <<"\r">>

\* the pieces a text of the rule driver is made of
RuleLexemes ==
    {LexGuard, LexGuardMixed, LexGuardSpaced, LexGuardBare,
     LexUse, LexWord, LexLF, LexCR}

\* the pieces the two texts of a pair are made of
PairLexemes == {LexGuard, LexLineUse, LexWord}

\* at most this many pieces in a text of the rule driver
MaxLexemes == 4

\* at most this many pieces in each text of a pair
MaxPairLexemes == 3

\* at most this many files under the scan root
MaxFiles == 3

RECURSIVE Flatten(_)
Flatten(ls) == IF ls = <<>> THEN <<>> ELSE Head(ls) \o Flatten(Tail(ls))

\* the texts of at most n pieces
Texts(lexemes, n) ==
    {Flatten(ls) : ls \in UNION {[1..k -> lexemes] : k \in 0..n}}

\* what a file of the scanned tree may hold
BytesViolating == LexGuard \o LexLineUse
BytesClean == LexUse \o LexLF \o LexGuard
BytesNoGuard == LexUse
BytesBinary == <<BadByte>> \o BytesViolating

FileKinds ==
    {[bytes |-> BytesViolating, readable |-> TRUE],
     [bytes |-> BytesClean, readable |-> TRUE],
     [bytes |-> BytesNoGuard, readable |-> TRUE],
     [bytes |-> BytesBinary, readable |-> TRUE],
     [bytes |-> BytesViolating, readable |-> FALSE]}

\* the directories of the tree in the order os.walk visits them
Dirs == <<root_dir, root_dir \o <<"/","i","n","c">> >>

\* the files a tree may hold: under the root a candidate, an index.php and a
\* file with the suffix in capitals; under the subdirectory two candidates
Paths ==
    {[d |-> 1, name |-> SampleName],
     [d |-> 1, name |-> LitIndexPhp],
     [d |-> 1, name |-> <<"a",".","P","H","P">>],
     [d |-> 2, name |-> SampleName],
     [d |-> 2, name |-> <<"b",".","p","h","p">>]}

File(p, kind) ==
    [dir |-> Dirs[p.d], name |-> p.name, bytes |-> kind.bytes, readable |-> kind.readable]

DirIndex(dir) == CHOOSE d \in 1..Len(Dirs) : Dirs[d] = dir

\* the listings a real tree can give: no path twice, the files of a directory
\* together, the directories top-down
WalkOrders ==
    LET Files == {File(p, k) : p \in Paths, k \in FileKinds}
        Seqs == UNION {[1..k -> Files] : k \in 0..MaxFiles}
    IN {es \in Seqs :
          \A i, j \in 1..Len(es) :
             i < j => /\ DirIndex(es[i].dir) <= DirIndex(es[j].dir)
                      /\ <<es[i].dir, es[i].name>> # <<es[j].dir, es[j].name>>}

Trees ==
    {[root |-> r, entries |-> es] : r \in {"ok", "unreadable"}, es \in WalkOrders}
    \cup {[root |-> "missing", entries |-> <<>>]}

---------------------------------------------------------------------------
(* Specifications *)

NoCall == NoFrame(None)

\* the walker script, run twice over any tree
Init ==
    /\ fs \in Trees
    /\ run = "first"
    /\ status = "start"
    /\ todo = <<>>
    /\ out = <<>>
    /\ prev_out = <<>>
    /\ opened = {}
    /\ pc = "walk"
    /\ cf = NoCall
    /\ dbg = dbg_loaded(<<>>)

Next == StartWalk \/ VisitFile \/ ExitWalk \/ Rerun

Spec == Init /\ [][Next]_vars

\* the walker script, run once over two candidate files holding any two texts
PairNameA == SampleName
PairNameB == <<"b",".","p","h","p">>

InitPair ==
    /\ \E ta, tb \in Texts(PairLexemes, MaxPairLexemes) :
          fs = [root |-> "ok",
                entries |-> <<[dir |-> root_dir, name |-> PairNameA,
                               bytes |-> ta, readable |-> TRUE],
                              [dir |-> root_dir, name |-> PairNameB,
                               bytes |-> tb, readable |-> TRUE]>>]
    /\ run = "first"
    /\ status = "start"
    /\ todo = <<>>
    /\ out = <<>>
    /\ prev_out = <<>>
    /\ opened = {}
    /\ pc = "walk"
    /\ cf = NoCall
    /\ dbg = dbg_loaded(<<>>)

NextPair == StartWalk \/ VisitFile \/ ExitWalk

PairSpec == InitPair /\ [][NextPair]_vars

\* check_file and debug_check.py on any one text, the script's own among them
InitRule ==
    /\ \E t \in Texts(RuleLexemes, MaxLexemes) \cup {DbgContent} :
          /\ fs = [root |-> "ok",
                   entries |-> <<[dir |-> SampleDir, name |-> SampleName,
                                  bytes |-> t, readable |-> TRUE]>>]
          /\ dbg = dbg_loaded(t)
    /\ run = "first"
    /\ status = "start"
    /\ todo = <<>>
    /\ out = <<>>
    /\ prev_out = <<>>
    /\ opened = {}
    /\ pc = "text"
    /\ cf = NoCall

NextRule == CallCheckFile \/ RunHarness

RuleSpec == InitRule /\ [][NextRule]_vars

---------------------------------------------------------------------------
(* What the claims speak of, said without the scan order of finditer/search *)

Range(seq) == {seq[i] : i \in 1..Len(seq)}

Min(S) == CHOOSE m \in S : \A n \in S : m <= n

\* the offsets at which a use statement starts in t
UseOffsets(t) == {p \in 0..Len(t) : use_match_end(t, p, TRUE) >= 0}

\* the offsets at which a guard check starts in t
GuardOffsets(t) == {p \in 0..Len(t) : guard_match_end(t, p) >= 0}

\* both constructs are in t
HasBoth(t) == UseOffsets(t) # {} /\ GuardOffsets(t) # {}

\* Verdict = true: both constructs, the first guard strictly before the first use
Violates(t) == HasBoth(t) /\ Min(GuardOffsets(t)) < Min(UseOffsets(t))

\* the rule driver has called check_file, and the read succeeded
Checked == pc \in {"checked", "harnessed"} /\ cf.read

(* C1 *)
\* C1: for every text check_file read successfully it returns the file's path
\* if and only if the text has a use statement and a guard check and the
\* first guard check starts strictly before the first use statement; in every
\* other case it returns None.
C1_FlagIffGuardBeforeFirstUse ==
    Checked =>
        /\ (cf.ret = Str(SamplePath)) <=> Violates(cf.content)
        /\ ~Violates(cf.content) => cf.ret = None

\* a text whose guard, not at its very start, precedes its use statement was
\* flagged
C1_Witness ==
    /\ Checked
    /\ cf.ret = Str(SamplePath)
    /\ Min(GuardOffsets(cf.content)) > 0
    /\ Min(UseOffsets(cf.content)) > Min(GuardOffsets(cf.content))

(* C6 *)
\* the shape of a guard check: 'defined(', whitespace, a quote, ABSPATH, a
\* quote, whitespace, ')'; same: the two quotes are the same character
GuardShape(m, same) ==
    LET fixed == Len(LitDefined) + 1 + Len(LitABSPATH) + 1 + 1 IN
    /\ Len(m) >= fixed
    /\ SubSeq(m, 1, Len(LitDefined)) = LitDefined
    /\ m[Len(m)] = ")"
    /\ \E i \in 0..(Len(m) - fixed) :
          LET q1 == Len(LitDefined) + i + 1
              q2 == q1 + Len(LitABSPATH) + 1
          IN /\ \A k \in (Len(LitDefined) + 1)..(q1 - 1) : m[k] \in Whitespace
             /\ m[q1] \in Quote
             /\ SubSeq(m, q1 + 1, q2 - 1) = LitABSPATH
             /\ m[q2] \in Quote
             /\ same => m[q1] = m[q2]
             /\ \A k \in (q2 + 1)..(Len(m) - 1) : m[k] \in Whitespace

\* the places <<start, end>> of t that hold a guard check of that shape
GuardPlaces(t, same) ==
    UNION {{<<p, e>> : e \in {e \in (p + 1)..Len(t) :
                                 GuardShape(SubSeq(t, p + 1, e), same)}} :
           p \in {p \in 0..Len(t) : LiteralAt(t, p, LitDefined)}}

\* C6 as claimed: the guard pattern matches only a check whose closing quote
\* is the same character as its opening quote, so a text whose only candidate
\* has mismatched quotes has no guard match.
C6_OnlyMatchingQuotes ==
    Checked =>
        /\ cf.abspath_check.found =>
              <<cf.abspath_check.start, cf.abspath_check.end>>
                  \in GuardPlaces(cf.content, TRUE)
        /\ GuardPlaces(cf.content, TRUE) = {} => ~cf.abspath_check.found

\* C6 as amended: the guard pattern matches exactly the checks of the shape
\* 'defined(', optional whitespace, a quote, ABSPATH, a quote (single or
\* double, whatever the opening one was), optional whitespace, ')'; the match
\* found is the leftmost such check, and a text whose only candidate has
\* mismatched quotes does have a guard match.
C6_EitherQuoteCloses ==
    Checked =>
        LET places == GuardPlaces(cf.content, FALSE) IN
        /\ cf.abspath_check.found <=> places # {}
        /\ cf.abspath_check.found =>
              /\ <<cf.abspath_check.start, cf.abspath_check.end>> \in places
              /\ \A pe \in places : cf.abspath_check.start <= pe[1]

\* a text whose only guard candidate opens with ' and closes with " was
\* matched, and flagged for it
C6_Witness ==
    /\ Checked
    /\ GuardPlaces(cf.content, TRUE) = {}
    /\ cf.abspath_check.found
    /\ cf.ret = Str(SamplePath)

(* C8 *)
FinalKinds == {"DETECTED", "OK", "NOT_BOTH"}

KindsPrinted(lines) == {lines[i].kind : i \in 1..Len(lines)}

\* C8: debug_check.py ends by printing exactly one of its three final lines:
\* 'DETECTED' exactly when both patterns are found and the guard offset is
\* less than the first use offset, 'OK' exactly when both are found and the
\* guard is not before the first use, 'Not detected' exactly when either
\* pattern is absent; the first-use line is printed only when a use match
\* exists, the guard offset and matched-substring lines only when a guard
\* match exists.
C8_OneFinalLine ==
    pc = "harnessed" =>
        LET t == dbg.content
            lines == dbg.lines
            last == lines[Len(lines)].kind
        IN /\ Len(lines) >= 1
           /\ Cardinality({i \in 1..Len(lines) : lines[i].kind \in FinalKinds}) = 1
           /\ last \in FinalKinds
           /\ last = "DETECTED" <=> Violates(t)
           /\ last = "OK" <=> (HasBoth(t) /\ ~Violates(t))
           /\ last = "NOT_BOTH" <=> ~HasBoth(t)
           /\ "FIRST_USE" \in KindsPrinted(lines) => UseOffsets(t) # {}
           /\ "GUARD_AT" \in KindsPrinted(lines) => GuardOffsets(t) # {}
           /\ "MATCH" \in KindsPrinted(lines) => GuardOffsets(t) # {}

\* the script printed the guard lines, no first-use line, and 'Not detected'
C8_Witness ==
    /\ pc = "harnessed"
    /\ dbg.lines[Len(dbg.lines)].kind = "NOT_BOTH"
    /\ "GUARD_AT" \in KindsPrinted(dbg.lines)
    /\ "FIRST_USE" \notin KindsPrinted(dbg.lines)

(* C10 *)
Flagged == cf.ret = Str(SamplePath)

HarnessSays(kind) == dbg.lines[Len(dbg.lines)].kind = kind

\* every "\r" of t is followed at once by "\n"
NoBareCR(t) ==
    \A i \in 1..Len(t) : t[i] = "\r" => (i < Len(t) /\ t[i + 1] = "\n")

\* C10 as claimed: for any text, debug_check.py prints 'DETECTED' for it if
\* and only if check_file flags a file holding it, and prints 'OK' or 'Not
\* detected' exactly when check_file returns None.
C10_HarnessAgreesOnEveryText ==
    pc = "harnessed" =>
        /\ HarnessSays("DETECTED") <=> Flagged
        /\ (HarnessSays("OK") \/ HarnessSays("NOT_BOTH")) <=> cf.ret = None

\* C10 as amended: for any text in which every carriage return is followed
\* at once by a line feed, debug_check.py prints 'DETECTED' for it if and
\* only if check_file flags a readable file holding it, and prints 'OK' or
\* 'Not detected' exactly when check_file returns None.
C10_HarnessAgreesWithoutBareCR ==
    (pc = "harnessed" /\ NoBareCR(dbg.content)) =>
        /\ HarnessSays("DETECTED") <=> Flagged
        /\ (HarnessSays("OK") \/ HarnessSays("NOT_BOTH")) <=> cf.ret = None

\* a text with a "\r\n" line end between its guard and its use statement:
\* flagged by check_file, 'DETECTED' by the script
C10_Witness ==
    /\ pc = "harnessed"
    /\ NoBareCR(dbg.content)
    /\ \E i \in 1..Len(dbg.content) : dbg.content[i] = "\r"
    /\ Flagged
    /\ HarnessSays("DETECTED")

---------------------------------------------------------------------------
(* The walk *)

PathOf(e) == e.dir \o <<"/">> \o e.name

\* the candidate files: the name ends in '.php' and is not 'index.php'
CandidateName(name) ==
    /\ Len(name) >= 4
    /\ <<name[Len(name) - 3], name[Len(name) - 2], name[Len(name) - 1], name[Len(name)]>>
          = <<".", "p", "h", "p">>
    /\ name # <<"i","n","d","e","x",".","p","h","p">>

\* the file can be read as text
ReadsAsText(e) == e.readable /\ \A i \in 1..Len(e.bytes) : e.bytes[i] # BadByte

\* a candidate that is read successfully and whose text has Verdict = true
Reportable(e) ==
    /\ CandidateName(e.name)
    /\ ReadsAsText(e)
    /\ Violates(universal_newlines(e.bytes))

\* a candidate whose read or decode fails
FailingCandidate(e) == CandidateName(e.name) /\ ~ReadsAsText(e)

\* the walker has listed the tree and gone through it to its end
ScanDone == fs.root = "ok" /\ status = "done"

(* C2 *)
\* C2: a read or decode failure on a candidate never aborts the walk: no
\* error is raised, the failing candidate prints nothing, every candidate of
\* the tree is still evaluated, and at the normal end of the scan every
\* readable violating candidate has been printed.
C2_ReadFailureNeverAborts ==
    /\ status # "aborted"
    /\ \A i \in 1..Len(fs.entries) :
          FailingCandidate(fs.entries[i]) => PathOf(fs.entries[i]) \notin Range(out)
    /\ ScanDone =>
          \A i \in 1..Len(fs.entries) :
             /\ CandidateName(fs.entries[i].name) => PathOf(fs.entries[i]) \in opened
             /\ Reportable(fs.entries[i]) => PathOf(fs.entries[i]) \in Range(out)

\* a scan ended normally in which a candidate without read permission and a
\* candidate that does not decode came before a violating candidate, which
\* was printed
C2_Witness ==
    /\ ScanDone
    /\ Len(fs.entries) = 3
    /\ FailingCandidate(fs.entries[1])
    /\ ~fs.entries[1].readable
    /\ FailingCandidate(fs.entries[2])
    /\ fs.entries[2].readable
    /\ {PathOf(fs.entries[1]), PathOf(fs.entries[2])} \subseteq opened
    /\ Reportable(fs.entries[3])
    /\ out = <<PathOf(fs.entries[3])>>

(* C3 *)
\* the part of a path after its last "/"
RECURSIVE BaseName(_)
BaseName(path) ==
    IF \E i \in 1..Len(path) : path[i] = "/"
    THEN BaseName(SubSeq(path, (CHOOSE i \in 1..Len(path) : path[i] = "/") + 1, Len(path)))
    ELSE path

\* C3: the walker only ever reads and prints files whose base name ends with
\* the case-sensitive suffix '.php' and is not exactly 'index.php'.
C3_OnlyCandidatesReadOrPrinted ==
    \A p \in opened \cup Range(out) : CandidateName(BaseName(p))

\* a scan ended with a readable, violating index.php and a readable,
\* violating file whose suffix is in capitals both left unread, and a third
\* file printed
C3_Witness ==
    /\ ScanDone
    /\ \E i, j \in 1..Len(fs.entries) :
          /\ fs.entries[i].name = <<"i","n","d","e","x",".","p","h","p">>
          /\ fs.entries[j].name = <<"a",".","P","H","P">>
          /\ \A k \in {i, j} :
                /\ ReadsAsText(fs.entries[k])
                /\ Violates(universal_newlines(fs.entries[k].bytes))
                /\ PathOf(fs.entries[k]) \notin opened
    /\ Len(out) = 1

(* C4 *)
\* the paths of the reportable files of a listing, in its order
RECURSIVE ReportablePaths(_)
ReportablePaths(es) ==
    IF es = <<>> THEN <<>>
    ELSE (IF Reportable(Head(es)) THEN <<PathOf(Head(es))>> ELSE <<>>)
         \o ReportablePaths(Tail(es))

\* C4: at the end of a scan the output holds exactly one line per candidate
\* that was read successfully and has Verdict = true, each path once, in the
\* order the walk met the files; every other file contributes no line.
C4_OutputIsReportableInOrder ==
    ScanDone => out = ReportablePaths(fs.entries)

\* a scan of three candidates ended with two lines printed, in the order of
\* the walk: the first and the third file, the second having Verdict = false
C4_Witness ==
    /\ ScanDone
    /\ Len(fs.entries) = 3
    /\ CandidateName(fs.entries[2].name)
    /\ ReadsAsText(fs.entries[2])
    /\ HasBoth(universal_newlines(fs.entries[2].bytes))
    /\ out = <<PathOf(fs.entries[1]), PathOf(fs.entries[3])>>

C9_RootFailureTerminates ==
    fs.root # "ok" => status # "done"

\* C9 as amended: when the scan root is unreadable or missing, the failed
\* listing is ignored: nothing is raised, no file is read, nothing is
\* printed, and the walker finishes normally with empty output.
C9_RootFailureIgnored ==
    fs.root # "ok" =>
        /\ status # "aborted"
        /\ opened = {}
        /\ out = <<>>
        /\ status = "walking" => todo = <<>>

\* the walker finished normally over an unreadable root that holds files
C9_Witness ==
    /\ fs.root = "unreadable"
    /\ fs.entries # <<>>
    /\ status = "done"
    /\ out = <<>>

(* C5 *)
\* the text of the i-th file of the tree, as read
TextOf(i) == universal_newlines(fs.entries[i].bytes)

\* C5: two texts that each have a use statement and a guard check and that
\* agree on the offset of the first use statement and on the offset of the
\* first guard check get the same verdict, whatever else they contain.
C5_VerdictFromFirstOffsets ==
    (status = "done" /\ Len(fs.entries) = 2) =>
        LET ta == TextOf(1)
            tb == TextOf(2)
        IN (/\ HasBoth(ta)
            /\ HasBoth(tb)
            /\ Min(UseOffsets(ta)) = Min(UseOffsets(tb))
            /\ Min(GuardOffsets(ta)) = Min(GuardOffsets(tb)))
           => (PathOf(fs.entries[1]) \in Range(out)
                  <=> PathOf(fs.entries[2]) \in Range(out))

\* two texts with the same first offsets, the guard after the first use
\* statement, the second text with one more use statement after its guard:
\* neither was flagged
C5_Witness ==
    /\ status = "done"
    /\ Len(fs.entries) = 2
    /\ HasBoth(TextOf(1))
    /\ HasBoth(TextOf(2))
    /\ Min(UseOffsets(TextOf(1))) = Min(UseOffsets(TextOf(2)))
    /\ Min(GuardOffsets(TextOf(1))) = Min(GuardOffsets(TextOf(2)))
    /\ Min(GuardOffsets(TextOf(1))) > Min(UseOffsets(TextOf(1)))
    /\ \A p \in UseOffsets(TextOf(1)) : p < Min(GuardOffsets(TextOf(1)))
    /\ \E p \in UseOffsets(TextOf(2)) : p > Min(GuardOffsets(TextOf(2)))
    /\ out = <<>>

===========================================================================
